---- MODULE Spec2Model ----
(***************************************************************************)
(* A model of zusage.py, the Z.AI quota report tool: one run of main(),    *)
(* its two fetches, the extraction, aggregation and rendering functions.   *)
(*                                                                         *)
(* Python values are tagged records: [t |-> "None"], [t |-> "int", v |-> n],*)
(* [t |-> "str", v |-> s], [t |-> "list", v |-> <<...>>] and                *)
(* [t |-> "dict", v |-> f] with f a function from keys to values.           *)
(* A string is the sequence of its parts.  A time label                    *)
(* "YYYY-MM-DD HH:MM:SS" is the sequence of its numeric fields with SP for *)
(* the space, <<y, m, d, SP, h, mi, s>>; a date "YYYY-MM-DD" is <<y, m, d>>.*)
(* A function that can raise returns [ok |-> TRUE, val |-> v] or            *)
(* [ok |-> FALSE, exc |-> name].                                            *)
(***************************************************************************)
EXTENDS Integers, Sequences, FiniteSets, TLC

\* ---------------------------------------------------------------- bounds
\* largest -d/--days value of a run
MaxDays == 3
\* how many times the local clock may pass midnight during one run
MaxTicks == 1
\* longest x_time / tokensUsage array of a run's usage document
MaxRunLen == 1
\* longest x_time / tokensUsage array given to the aggregator alone
MaxLen == 3
\* largest percentage given to the progress bar alone
MaxPct == 100
\* largest bucket value given to the chart alone
MaxUsage == 4

\* ---------------------------------------------------------- Python values
PyNone == [t |-> "None"]
PyInt(n) == [t |-> "int", v |-> n]
PyStr(s) == [t |-> "str", v |-> s]
PyBool(b) == [t |-> "bool", v |-> b]
PyList(s) == [t |-> "list", v |-> s]
PyDict(f) == [t |-> "dict", v |-> f]
EmptyDict == PyDict(<<>>)
EmptyList == PyList(<<>>)

Ok(v) == [ok |-> TRUE, val |-> v]
Raise(e) == [ok |-> FALSE, exc |-> e]

\* bool(x)
Truthy(x) ==
    CASE x.t = "None" -> FALSE
      [] x.t = "int" -> x.v # 0
      [] x.t = "bool" -> x.v
      [] x.t = "str" -> x.v # <<>>
      [] x.t = "list" -> x.v # <<>>
      [] x.t = "dict" -> DOMAIN x.v # {}

\* d.get(k, default) on a dict d
Get(d, k, default) == IF k \in DOMAIN d.v THEN d.v[k] ELSE default

\* s * n for a one-character string s: the empty string when n <= 0
Rep(c, n) == [i \in 1..n |-> c]

\* int(a / b) for b > 0: true division, then truncation toward zero
IntDiv(a, b) == IF a >= 0 THEN a \div b ELSE -((-a) \div b)

\* -------------------------------------------------------------- calendar
\* date.fromordinal(n) as (year, month, day), the proleptic Gregorian
\* calendar strftime('%Y-%m-%d') prints
DaysBeforeMonth(m, leap) ==
    <<0, 31, 59, 90, 120, 151, 181, 212, 243, 273, 304, 334>>[m]
        + (IF m > 2 /\ leap THEN 1 ELSE 0)

DaysInMonth(m, leap) ==
    IF m = 2 THEN (IF leap THEN 29 ELSE 28)
    ELSE <<31, 28, 31, 30, 31, 30, 31, 31, 30, 31, 30, 31>>[m]

Ord2Ymd(ordinal) ==
    LET n0 == ordinal - 1
        n400 == n0 \div 146097
        r400 == n0 % 146097
        n100 == r400 \div 36524
        r100 == r400 % 36524
        n4 == r100 \div 1461
        r4 == r100 % 1461
        n1 == r4 \div 365
        n == r4 % 365
        year == n400 * 400 + 1 + n100 * 100 + n4 * 4 + n1
        leap == n1 = 3 /\ (n4 # 24 \/ n100 = 3)
        m0 == (n + 50) \div 32
        p0 == DaysBeforeMonth(m0, leap)
        month == IF p0 > n THEN m0 - 1 ELSE m0
        preceding == IF p0 > n THEN p0 - DaysInMonth(m0 - 1, leap) ELSE p0
    IN  IF n1 = 4 \/ n100 = 4 THEN <<year - 1, 12, 31>>
        ELSE <<year, month, n - preceding + 1>>

\* date.strftime('%Y-%m-%d')
FmtDate(ordinal) == Ord2Ymd(ordinal)

\* date.strftime('%a')
Weekday(ordinal) ==
    <<"Mon", "Tue", "Wed", "Thu", "Fri", "Sat", "Sun">>[((ordinal + 6) % 7) + 1]

\* the space character of a time label, among its numeric fields
SP == -1
StartOfDay == <<SP, 0, 0, 0>>
EndOfDay == <<SP, 23, 59, 59>>

\* ------------------------------------------------- progress bar and tiers
BarWidth == 30

get_progress_bar_color(percentage) ==
    IF percentage < 50 THEN "GREEN_BAR"
    ELSE IF percentage < 80 THEN "YELLOW_BAR"
    ELSE "RED_BAR"

\* get_percentage_color with "<=" for "<" at the first threshold
get_percentage_color_Inclusive(percentage) ==
    IF percentage <= 50 THEN "OKGREEN"
    ELSE IF percentage < 80 THEN "WARNING"
    ELSE "FAIL"

get_percentage_color(percentage) ==
    IF percentage < 50 THEN "OKGREEN"
    ELSE IF percentage < 80 THEN "WARNING"
    ELSE "FAIL"

\* the bar string, as the sequence of its colour codes and cells
create_progress_bar(percentage, width) ==
    LET filled == IntDiv(width * percentage, 100)
        empty == width - filled
    IN  <<get_progress_bar_color(percentage)>> \o Rep("#", filled)
            \o <<"GRAY_BAR">> \o Rep(".", empty) \o <<"ENDC">>

\* ------------------------------------------------------ number formatting
RECURSIVE Groups(_)
Groups(n) == IF n < 1000 THEN <<n>> ELSE Groups(n \div 1000) \o <<n % 1000>>

\* f"{num:,}": the thousands groups of an int; other types raise
format_number(num) ==
    CASE num.t = "int" ->
            Ok(IF num.v >= 0 THEN Groups(num.v) ELSE <<SP>> \o Groups(-num.v))
      [] num.t = "str" -> Raise("ValueError")
      [] OTHER -> Raise("TypeError")

\* ------------------------------------------------ quota snapshot extractor
\* data.get('data', {}).get('limits', []) inside the extractors' try block
LimitsOf(data) ==
    LET d == Get(data, "data", EmptyDict)
    IN  IF d.t # "dict" THEN Raise("AttributeError")
        ELSE Ok(Get(d, "limits", EmptyList))

\* for limit in limits: if limit.get('type') == typ: return limit
RECURSIVE FirstOfType(_, _, _)
FirstOfType(items, i, typ) ==
    IF i > Len(items) THEN [kind |-> "none"]
    ELSE IF items[i].t # "dict" THEN [kind |-> "raise", exc |-> "AttributeError"]
    ELSE IF Get(items[i], "type", PyNone) = PyStr(<<typ>>)
         THEN [kind |-> "found", v |-> items[i]]
    ELSE FirstOfType(items, i + 1, typ)

\* the scan of the limits value: a list is scanned; None or a number is not
\* iterable (TypeError) and the items of a str or a dict have no .get
\* (AttributeError), both caught by the extractors
ScanLimits(data, typ) ==
    LET lim == LimitsOf(data)
    IN  IF ~lim.ok THEN [kind |-> "raise", exc |-> lim.exc]
        ELSE IF lim.val.t = "list" THEN FirstOfType(lim.val.v, 1, typ)
        ELSE IF lim.val.t \in {"str", "dict"}
             THEN (IF Truthy(lim.val) THEN [kind |-> "raise", exc |-> "AttributeError"]
                   ELSE [kind |-> "none"])
        ELSE [kind |-> "raise", exc |-> "TypeError"]

extract_token_data(data) ==
    LET r == ScanLimits(data, "TOKENS_LIMIT")
    IN  IF r.kind = "found" THEN r.v ELSE PyNone

extract_usage_details(data) ==
    LET r == ScanLimits(data, "TIME_LIMIT")
    IN  IF r.kind = "found" THEN Get(r.v, "usageDetails", EmptyList) ELSE EmptyList

\* ------------------------------------------------------- quota block
NotPrinted == [kind |-> "not_printed"]

\* the lines print_token_usage prints, or the exception that ends it
print_token_usage(token_data) ==
    IF ~Truthy(token_data) THEN Ok([kind |-> "no_token_data"])
    ELSE
    LET percentage == Get(token_data, "percentage", PyInt(0))
        current_value == Get(token_data, "currentValue", PyInt(0))
        total == Get(token_data, "usage", PyInt(0))
        remaining == Get(token_data, "remaining", PyInt(0))
        reset_time == Get(token_data, "nextResetTime", PyInt(0))
        counts == current_value.v > 0 \/ total.v > 0
    IN  IF percentage.t # "int" THEN Raise("TypeError")
        ELSE IF current_value.t # "int" THEN Raise("TypeError")
        ELSE IF current_value.v > 0 /\ total.t # "int" THEN format_number(total)
        ELSE IF total.t # "int" THEN Raise("TypeError")
        ELSE IF remaining.t # "int" THEN Raise("TypeError")
        ELSE IF Truthy(reset_time) /\ reset_time.t # "int" THEN Raise("TypeError")
        ELSE Ok([kind |-> "token_usage",
                 mode |-> IF counts THEN "counts" ELSE "percent_only",
                 bar |-> create_progress_bar(percentage.v, BarWidth),
                 percentage_color |-> get_percentage_color(percentage.v),
                 percentage |-> percentage.v,
                 current |-> IF counts THEN format_number(current_value).val ELSE <<>>,
                 total |-> IF counts THEN format_number(total).val ELSE <<>>,
                 remaining |-> IF remaining.v > 0 THEN format_number(remaining).val
                               ELSE <<>>,
                 reset |-> IF Truthy(reset_time) THEN reset_time.v ELSE 0])

\* one line per detail: detail.get('modelCode', 'unknown'), detail.get('usage', 0)
RECURSIVE ServiceLines(_, _)
ServiceLines(details, i) ==
    IF i > Len(details) THEN Ok(<<>>)
    ELSE IF details[i].t # "dict" THEN Raise("AttributeError")
    ELSE LET model == Get(details[i], "modelCode", PyStr(<<"unknown">>))
             usage == format_number(Get(details[i], "usage", PyInt(0)))
             rest == ServiceLines(details, i + 1)
         IN  IF model.t \notin {"str", "int"} THEN Raise("TypeError")
             ELSE IF ~usage.ok THEN usage
             ELSE IF ~rest.ok THEN rest
             ELSE Ok(<<[model |-> model.v, usage |-> usage.val]>> \o rest.val)

print_service_usage(usage_details) ==
    IF ~Truthy(usage_details) THEN Ok([kind |-> "no_services"])
    ELSE IF usage_details.t = "list"
         THEN (LET r == ServiceLines(usage_details.v, 1)
               IN  IF r.ok THEN Ok([kind |-> "services", lines |-> r.val]) ELSE r)
    ELSE IF usage_details.t \in {"str", "dict"} THEN Raise("AttributeError")
    ELSE Raise("TypeError")

\* ------------------------------------------------------- usage aggregator
\* time_str.split(' ')[0]: the text before the first space
FirstSpace(s) ==
    IF \E i \in 1..Len(s) : s[i] = SP
    THEN CHOOSE i \in 1..Len(s) : s[i] = SP /\ \A j \in 1..(i - 1) : s[j] # SP
    ELSE Len(s) + 1

DatePart(time_str) == SubSeq(time_str, 1, FirstSpace(time_str) - 1)

\* AddTo with "=" for "+=": the last sample of a day replaces the sum
AddTo_Overwrite(daily, date_str, n) ==
    [k \in DOMAIN daily \cup {date_str} |-> IF k = date_str THEN n ELSE daily[k]]

\* daily_totals[date_str] += token_value, the bucket created at 0 first
AddTo(daily, date_str, n) ==
    [k \in DOMAIN daily \cup {date_str} |->
        IF k = date_str
        THEN (IF date_str \in DOMAIN daily THEN daily[date_str] ELSE 0) + n
        ELSE daily[k]]

\* the body of the loop over enumerate(x_times), from index i on
RECURSIVE AggLoop(_, _, _, _)
AggLoop(x_times, tokens_usage, i, daily) ==
    IF i > Len(x_times) THEN Ok(daily)
    ELSE IF x_times[i].t # "str" THEN Raise("AttributeError")
    ELSE IF tokens_usage.t # "list" THEN Raise("TypeError")
    ELSE IF i > Len(tokens_usage.v) THEN Raise("IndexError")
    ELSE LET token_value == tokens_usage.v[i]
         IN  IF token_value.t = "None"
             THEN AggLoop(x_times, tokens_usage, i + 1, daily)
             ELSE IF token_value.t # "int" THEN Raise("TypeError")
             ELSE AggLoop(x_times, tokens_usage, i + 1,
                          AddTo(daily, DatePart(x_times[i].v), token_value.v))

\* the try block of aggregate_daily_usage
AggTry(data) ==
    LET d == Get(data, "data", EmptyDict)
    IN  IF d.t # "dict" THEN Raise("AttributeError")
        ELSE
        LET x_times == Get(d, "x_time", EmptyList)
            tokens_usage == Get(d, "tokensUsage", EmptyList)
            total_usage == Get(d, "totalUsage", EmptyDict)
            loop == IF x_times.t = "list"
                    THEN AggLoop(x_times.v, tokens_usage, 1, <<>>)
                    ELSE Raise("TypeError")
        IN  IF ~loop.ok THEN loop
            ELSE IF total_usage.t # "dict" THEN Raise("AttributeError")
            ELSE Ok(PyDict([daily |-> loop.val,
                            total |-> Get(total_usage, "totalTokensUsage", PyInt(0))]))

\* the result, None for absent; only AttributeError and TypeError are caught
aggregate_daily_usage(data) ==
    IF ~Truthy(data) THEN Ok(PyNone)
    ELSE IF data.t # "dict" THEN Raise("AttributeError")
    ELSE IF ~Truthy(Get(data, "success", PyNone)) THEN Ok(PyNone)
    ELSE LET r == AggTry(data)
         IN  IF r.ok THEN r
             ELSE IF r.exc \in {"AttributeError", "TypeError"} THEN Ok(PyNone)
             ELSE r

\* ------------------------------------------------- summary and chart blocks
get_today_date(now) == FmtDate(now)

\* print_daily_usage_summary taking an empty daily map for no data
print_daily_usage_summary_EmptyAsAbsent(usage_data, now) ==
    IF ~Truthy(usage_data) \/ DOMAIN Get(usage_data, "daily", <<>>) = {}
    THEN Ok([kind |-> "no_data"])
    ELSE LET today == get_today_date(now)
             daily == Get(usage_data, "daily", <<>>)
             total == format_number(Get(usage_data, "total", PyInt(0)))
         IN  IF ~total.ok THEN total
             ELSE Ok([kind |-> "summary", today |-> today,
                      today_usage |-> IF today \in DOMAIN daily THEN daily[today]
                                      ELSE 0,
                      total |-> total.val])

print_daily_usage_summary(usage_data, now) ==
    IF ~Truthy(usage_data) THEN Ok([kind |-> "no_data"])
    ELSE LET today == get_today_date(now)
             daily == Get(usage_data, "daily", <<>>)
             total == format_number(Get(usage_data, "total", PyInt(0)))
             today_usage == IF today \in DOMAIN daily THEN daily[today] ELSE 0
         IN  IF ~total.ok THEN total
             ELSE Ok([kind |-> "summary", today |-> today,
                      today_usage |-> today_usage, total |-> total.val])

ChartWidth == 30

\* max(daily.values()), then the floor at 1 when it is 0
MaxUsageOf(daily) ==
    LET m == CHOOSE v \in {daily[k] : k \in DOMAIN daily} :
                 \A k \in DOMAIN daily : daily[k] <= v
    IN  IF m = 0 THEN 1 ELSE m

\* the row of index i (0 = today) of the chart
ChartRow(daily, today, i, max_usage) ==
    LET date_str == FmtDate(today - i)
        usage == IF date_str \in DOMAIN daily THEN daily[date_str] ELSE 0
        bar_width == IF max_usage > 0 THEN IntDiv(ChartWidth * usage, max_usage) ELSE 0
    IN  [date |-> date_str,
         tag |-> IF i = 0 THEN "today" ELSE IF i = 1 THEN "yesterday"
                 ELSE Weekday(today - i),
         usage |-> usage,
         bar |-> <<"OKGREEN">> \o Rep("#", bar_width) \o <<"GRAY_BAR">>
                     \o Rep(".", ChartWidth - bar_width) \o <<"ENDC">>]

\* print_weekly_usage scaling against the largest bucket of the displayed
\* days instead of the whole daily map
print_weekly_usage_WindowMax(usage_data, days, now) ==
    IF ~Truthy(usage_data) THEN NotPrinted
    ELSE LET daily == Get(usage_data, "daily", <<>>)
             shown == {FmtDate(now - i) : i \in 0..(days - 1)} \cap DOMAIN daily
             m == IF shown = {} THEN 1
                  ELSE MaxUsageOf([k \in shown |-> daily[k]])
         IN  IF DOMAIN daily = {} THEN NotPrinted
             ELSE [kind |-> "chart", days |-> days,
                   rows |-> [j \in 1..days |-> ChartRow(daily, now, j - 1, m)]]

print_weekly_usage(usage_data, days, now) ==
    IF ~Truthy(usage_data) THEN NotPrinted
    ELSE LET daily == Get(usage_data, "daily", <<>>)
         IN  IF DOMAIN daily = {} THEN NotPrinted
             ELSE [kind |-> "chart", days |-> days,
                   rows |-> [j \in 1..days |->
                                ChartRow(daily, now, j - 1, MaxUsageOf(daily))]]

\* ---------------------------------------------------------------- state
VARIABLES
    pc,                  \* the statement of main() the run is at
    env_token,           \* whether ZAI_TOKEN is set
    args,                \* [show_weekly, days] from the command line
    clock,               \* the local date datetime.now() returns, as an ordinal
    ticks,               \* how many midnights have passed since the run began
    net_calls,           \* the requests issued so far
    data,                \* the parsed quota document
    token_block,         \* what print_token_usage printed
    service_block,       \* what print_service_usage printed
    window,              \* start_time_str and end_time_str
    usage_data_response, \* what fetch_usage_data returned
    aggregated_usage,    \* what aggregate_daily_usage returned
    summary_block,       \* what print_daily_usage_summary printed
    chart_block,         \* what print_weekly_usage printed
    exit_status,         \* the process status, Running until the run ends
    raised               \* the exception that ended the run, "" if none

vars == <<pc, env_token, args, clock, ticks, net_calls, data, token_block,
          service_block, window, usage_data_response, aggregated_usage,
          summary_block, chart_block, exit_status, raised>>

Running == -1
NoWindow == [start_time_str |-> <<>>, end_time_str |-> <<>>]

\* ---------------------------------------------------------------- inputs
\* 2024-01-01 and 2024-03-01: the days before are in another year, and in
\* the February of a leap year
StartClocks == {738886, 738946}

Without(f, k) == [x \in DOMAIN f \ {k} |-> f[x]]
With(f, k, v) == [x \in DOMAIN f \cup {k} |-> IF x = k THEN v ELSE f[x]]
SeqsUpTo(S, n) == UNION {[1..k -> S] : k \in 0..n}

WrongStr == PyStr(<<"x">>)
WrongInt == PyInt(7)

TokenRec ==
    [type |-> PyStr(<<"TOKENS_LIMIT">>), percentage |-> PyInt(50),
     currentValue |-> PyInt(5000), usage |-> PyInt(10000),
     remaining |-> PyInt(5000), nextResetTime |-> PyInt(1)]
PercentOnlyRec ==
    [type |-> PyStr(<<"TOKENS_LIMIT">>), percentage |-> PyInt(12)]
TokenFields == {"percentage", "currentValue", "usage", "remaining", "nextResetTime"}
Percentages == {0, 49, 79, 80, 100}

Detail == PyDict([modelCode |-> PyStr(<<"search">>), usage |-> PyInt(1200)])
TimeRec == [type |-> PyStr(<<"TIME_LIMIT">>), usageDetails |-> PyList(<<Detail>>)]

\* the token-limit records: well-formed ones, then one anomaly each
TokenVariants ==
    {PyDict(With(TokenRec, "percentage", PyInt(p))) : p \in Percentages}
    \cup {PyDict(TokenRec), PyDict(PercentOnlyRec)}
    \cup {PyDict(Without(TokenRec, f)) : f \in TokenFields}
    \cup {PyDict(With(TokenRec, f, a)) : f \in TokenFields, a \in {PyNone, WrongStr}}
    \cup {PyNone, WrongInt, PyDict([type |-> PyStr(<<"OTHER">>)])}

TimeVariants ==
    {PyDict(Without(TimeRec, "usageDetails"))}
    \cup {PyDict(With(TimeRec, "usageDetails", a)) :
            a \in {PyNone, WrongInt, EmptyList, PyList(<<PyNone>>),
                   PyList(<<EmptyDict, Detail>>),
                   PyList(<<PyDict([modelCode |-> PyNone])>>),
                   PyList(<<PyDict([usage |-> PyNone])>>)}}

QuotaDoc(limits) ==
    PyDict([success |-> PyBool(TRUE), data |-> PyDict([limits |-> limits])])

QuotaDocs ==
    {QuotaDoc(PyList(<<PyDict(TimeRec), t>>)) : t \in TokenVariants}
    \cup {QuotaDoc(PyList(<<tv, PyDict(TokenRec)>>)) : tv \in TimeVariants}
    \cup {QuotaDoc(a) : a \in {PyNone, WrongInt, WrongStr, EmptyList}}
    \cup {PyDict([success |-> PyBool(TRUE)])}
    \cup {PyDict([success |-> PyBool(TRUE), data |-> a]) : a \in {PyNone, WrongInt}}
    \cup {PyDict([success |-> PyBool(FALSE)]),
          PyDict([success |-> PyBool(FALSE), msg |-> PyStr(<<"denied">>)]),
          EmptyDict, PyNone, PyList(<<WrongInt>>)}

\* the exceptions the two fetch functions catch
CaughtErrors == {"HTTPError", "URLError", "JSONDecodeError"}
\* one they do not: response.read().decode('utf-8') on a body that is not UTF-8
UncaughtErrors == {"UnicodeDecodeError"}

\* what urlopen, decode and json.loads can give: an exception, or a parsed
\* document
Responses(docs) ==
    {[kind |-> e] : e \in CaughtErrors \cup UncaughtErrors}
    \cup {[kind |-> "json", doc |-> d] : d \in docs}

SeriesDoc(x_time, tokensUsage, totalUsage) ==
    PyDict([success |-> PyBool(TRUE),
            data |-> PyDict([x_time |-> x_time, tokensUsage |-> tokensUsage,
                             totalUsage |-> totalUsage])])

Total(n) == PyDict([totalTokensUsage |-> PyInt(n)])

\* the usage documents over the labels L and token values T, arrays up to n
\* long, and the malformed ones
SeriesDocs(L, T, n) ==
    {SeriesDoc(PyList(x), PyList(t), Total(7)) :
        x \in SeqsUpTo({PyStr(l) : l \in L}, n), t \in SeqsUpTo(T, n)}
    \cup {SeriesDoc(x, t, Total(7)) :
            x \in {PyNone, PyList(<<WrongInt>>)}, t \in {PyList(<<PyInt(5)>>)}}
    \cup {SeriesDoc(PyList(<<PyStr(l)>>), t, Total(7)) :
            l \in L, t \in {PyNone, PyList(<<WrongStr>>)}}
    \cup {SeriesDoc(EmptyList, EmptyList, a) : a \in {PyNone, EmptyDict}}
    \cup {PyDict([success |-> PyBool(TRUE)]),
          PyDict([success |-> PyBool(TRUE), data |-> PyNone]),
          PyDict([success |-> PyBool(FALSE)]), EmptyDict, PyNone,
          PyList(<<WrongInt>>)}

TokenValues == {PyNone, PyInt(0), PyInt(5)}

\* the labels a server answers a run with: the days around the run's today
RunLabels(today) == {FmtDate(d) \o StartOfDay : d \in (today - 1)..(today + 1)}

\* ------------------------------------------------------------------- run
Init ==
    /\ pc = "start"
    /\ env_token \in BOOLEAN
    /\ args \in [show_weekly : BOOLEAN, days : 1..MaxDays]
    /\ clock \in StartClocks
    /\ ticks = 0
    /\ net_calls = <<>>
    /\ data = PyNone
    /\ token_block = NotPrinted
    /\ service_block = NotPrinted
    /\ window = NoWindow
    /\ usage_data_response = PyNone
    /\ aggregated_usage = PyNone
    /\ summary_block = NotPrinted
    /\ chart_block = NotPrinted
    /\ exit_status = Running
    /\ raised = ""

\* sys.exit(code), or the interpreter ending on an uncaught exception
Exit(code, exc) == pc' = "done" /\ exit_status' = code /\ raised' = exc
Goto(next) == pc' = next /\ UNCHANGED <<exit_status, raised>>

\* print_header(); token = get_env_token()
GetEnvToken ==
    /\ pc = "start"
    /\ IF env_token THEN Goto("fetch_quota") ELSE Exit(1, "")
    /\ UNCHANGED <<env_token, args, clock, ticks, net_calls, data, token_block,
                   service_block, window, usage_data_response, aggregated_usage,
                   summary_block, chart_block>>

\* fetch_quota_data on a response: the document, sys.exit(1) for a caught
\* exception, or the exception itself
fetch_quota_data(r) ==
    IF r.kind = "json" THEN [act |-> "return", val |-> r.doc]
    ELSE IF r.kind \in CaughtErrors THEN [act |-> "exit"]
    ELSE [act |-> "raise", exc |-> r.kind]

\* data = fetch_quota_data(token)
FetchQuota ==
    /\ pc = "fetch_quota"
    /\ \E r \in Responses(QuotaDocs) :
        /\ net_calls' = Append(net_calls, [url |-> "quota/limit", result |-> r.kind])
        /\ LET f == fetch_quota_data(r)
           IN  CASE f.act = "return" -> data' = f.val /\ Goto("check_success")
                 [] f.act = "exit" -> data' = data /\ Exit(1, "")
                 [] f.act = "raise" -> data' = data /\ Exit(1, f.exc)
    /\ UNCHANGED <<env_token, args, clock, ticks, token_block, service_block,
                   window, usage_data_response, aggregated_usage, summary_block,
                   chart_block>>

\* SuccessCheck without the test of the success flag
SuccessCheck_Ignored(d) ==
    IF d.t # "dict" THEN Raise("AttributeError") ELSE Ok(TRUE)

\* if not data.get('success'): ... sys.exit(1)
SuccessCheck(d) ==
    IF d.t # "dict" THEN Raise("AttributeError")
    ELSE Ok(Truthy(Get(d, "success", PyNone)))

CheckSuccess ==
    /\ pc = "check_success"
    /\ LET r == SuccessCheck(data)
       IN  IF ~r.ok THEN Exit(1, r.exc)
           ELSE IF r.val THEN Goto("render_quota")
           ELSE Exit(1, "")
    /\ UNCHANGED <<env_token, args, clock, ticks, net_calls, data, token_block,
                   service_block, window, usage_data_response, aggregated_usage,
                   summary_block, chart_block>>

\* print_token_usage(extract_token_data(data));
\* print_service_usage(extract_usage_details(data))
RenderQuota ==
    /\ pc = "render_quota"
    /\ LET t == print_token_usage(extract_token_data(data))
           s == print_service_usage(extract_usage_details(data))
       IN  IF ~t.ok
           THEN Exit(1, t.exc) /\ UNCHANGED <<token_block, service_block>>
           ELSE IF ~s.ok
           THEN token_block' = t.val /\ Exit(1, s.exc) /\ UNCHANGED service_block
           ELSE token_block' = t.val /\ service_block' = s.val /\ Goto("window")
    /\ UNCHANGED <<env_token, args, clock, ticks, net_calls, data, window,
                   usage_data_response, aggregated_usage, summary_block,
                   chart_block>>

\* end_date = datetime.now(); start_date = end_date - timedelta(days - 1)
WindowOf(days, now) ==
    [start_time_str |-> FmtDate(now - (days - 1)) \o StartOfDay,
     end_time_str |-> FmtDate(now) \o EndOfDay]

ComputeWindow ==
    /\ pc = "window"
    /\ window' = WindowOf(args.days, clock)
    /\ Goto("fetch_usage")
    /\ UNCHANGED <<env_token, args, clock, ticks, net_calls, data, token_block,
                   service_block, usage_data_response, aggregated_usage,
                   summary_block, chart_block>>

\* fetch_usage_data ending the run on a caught exception, as
\* fetch_quota_data does
fetch_usage_data_Exits(r) ==
    IF r.kind = "json" THEN [act |-> "return", val |-> r.doc]
    ELSE [act |-> "raise", exc |-> r.kind]

\* fetch_usage_data on a response: the document, None for a caught
\* exception, or the exception itself
fetch_usage_data(r) ==
    IF r.kind = "json" THEN [act |-> "return", val |-> r.doc]
    ELSE IF r.kind \in CaughtErrors THEN [act |-> "return", val |-> PyNone]
    ELSE [act |-> "raise", exc |-> r.kind]

\* usage_data_response = fetch_usage_data(token, start_time_str, end_time_str)
FetchUsage ==
    /\ pc = "fetch_usage"
    /\ \E r \in Responses(SeriesDocs(RunLabels(clock), TokenValues, MaxRunLen)) :
        /\ net_calls' = Append(net_calls,
                               [url |-> "model-usage", result |-> r.kind,
                                startTime |-> window.start_time_str,
                                endTime |-> window.end_time_str])
        /\ LET f == fetch_usage_data(r)
           IN  IF f.act = "return"
               THEN usage_data_response' = f.val /\ Goto("aggregate")
               ELSE usage_data_response' = usage_data_response /\ Exit(1, f.exc)
    /\ UNCHANGED <<env_token, args, clock, ticks, data, token_block,
                   service_block, window, aggregated_usage, summary_block,
                   chart_block>>

\* aggregated_usage = aggregate_daily_usage(usage_data_response)
Aggregate ==
    /\ pc = "aggregate"
    /\ LET r == aggregate_daily_usage(usage_data_response)
       IN  IF r.ok THEN aggregated_usage' = r.val /\ Goto("summary")
           ELSE Exit(1, r.exc) /\ UNCHANGED aggregated_usage
    /\ UNCHANGED <<env_token, args, clock, ticks, net_calls, data, token_block,
                   service_block, window, usage_data_response, summary_block,
                   chart_block>>

\* print_daily_usage_summary(aggregated_usage)
PrintSummary ==
    /\ pc = "summary"
    /\ LET r == print_daily_usage_summary(aggregated_usage, clock)
       IN  IF r.ok THEN summary_block' = r.val /\ Goto("weekly")
           ELSE Exit(1, r.exc) /\ UNCHANGED summary_block
    /\ UNCHANGED <<env_token, args, clock, ticks, net_calls, data, token_block,
                   service_block, window, usage_data_response, aggregated_usage,
                   chart_block>>

\* if args.show_weekly and aggregated_usage: print_weekly_usage(...)
WeeklyStep(show_weekly, usage_data, days, now) ==
    IF show_weekly /\ Truthy(usage_data)
    THEN print_weekly_usage(usage_data, days, now)
    ELSE NotPrinted

PrintWeekly ==
    /\ pc = "weekly"
    /\ chart_block' = WeeklyStep(args.show_weekly, aggregated_usage, args.days, clock)
    /\ Goto("footer")
    /\ UNCHANGED <<env_token, args, clock, ticks, net_calls, data, token_block,
                   service_block, window, usage_data_response, aggregated_usage,
                   summary_block>>

\* print_footer(), and main() returns
PrintFooter ==
    /\ pc = "footer"
    /\ Exit(0, "")
    /\ UNCHANGED <<env_token, args, clock, ticks, net_calls, data, token_block,
                   service_block, window, usage_data_response, aggregated_usage,
                   summary_block, chart_block>>

\* the local clock passes midnight while the run is under way
Tick ==
    /\ pc # "done"
    /\ ticks < MaxTicks
    /\ clock' = clock + 1
    /\ ticks' = ticks + 1
    /\ UNCHANGED <<pc, env_token, args, net_calls, data, token_block,
                   service_block, window, usage_data_response, aggregated_usage,
                   summary_block, chart_block, exit_status, raised>>

Next ==
    \/ GetEnvToken
    \/ FetchQuota
    \/ CheckSuccess
    \/ RenderQuota
    \/ ComputeWindow
    \/ FetchUsage
    \/ Aggregate
    \/ PrintSummary
    \/ PrintWeekly
    \/ PrintFooter
    \/ Tick

Spec == Init /\ [][Next]_vars

\* ------------------------------------------------- the aggregator alone
AggLabels ==
    {<<2024, 1, 1, SP, 0, 0, 0>>, <<2024, 1, 1, SP, 12, 0, 0>>,
     <<2024, 1, 2, SP, 0, 0, 0>>, <<2024, 1, 2>>}
AggTokens == {PyNone, PyInt(0), PyInt(1), PyInt(2)}

Idle ==
    /\ env_token = TRUE
    /\ ticks = 0
    /\ net_calls = <<>>
    /\ data = PyNone
    /\ token_block = NotPrinted
    /\ service_block = NotPrinted
    /\ window = NoWindow
    /\ summary_block = NotPrinted
    /\ chart_block = NotPrinted
    /\ exit_status = Running
    /\ raised = ""

InitAgg ==
    /\ pc = "aggregate"
    /\ Idle
    /\ args = [show_weekly |-> TRUE, days |-> 1]
    /\ clock = 738886
    /\ usage_data_response \in SeriesDocs(AggLabels, AggTokens, MaxLen)
    /\ aggregated_usage = PyNone

NextAgg == Aggregate

SpecAgg == InitAgg /\ [][NextAgg]_vars

\* ------------------------------------------------ the progress bar alone
BarDocs ==
    {QuotaDoc(PyList(<<PyDict(With(r, "percentage", PyInt(p)))>>)) :
        r \in {TokenRec, PercentOnlyRec}, p \in 0..MaxPct}

InitBar ==
    /\ pc = "render_quota"
    /\ env_token = TRUE
    /\ ticks = 0
    /\ net_calls = <<[url |-> "quota/limit", result |-> "json"]>>
    /\ data \in BarDocs
    /\ token_block = NotPrinted
    /\ service_block = NotPrinted
    /\ window = NoWindow
    /\ summary_block = NotPrinted
    /\ chart_block = NotPrinted
    /\ exit_status = Running
    /\ raised = ""
    /\ args = [show_weekly |-> TRUE, days |-> 1]
    /\ clock = 738886
    /\ usage_data_response = PyNone
    /\ aggregated_usage = PyNone

NextBar == RenderQuota

SpecBar == InitBar /\ [][NextBar]_vars

\* ------------------------------------------------------ the chart alone
\* every daily map over the dates S with buckets 0..MaxUsage, but the empty one
DailyMaps(S) ==
    UNION {[D -> 0..MaxUsage] : D \in (SUBSET S) \ {{}}}

InitChart ==
    /\ pc = "weekly"
    /\ Idle
    /\ args \in [show_weekly : {TRUE}, days : 1..MaxDays]
    /\ clock \in StartClocks
    /\ usage_data_response = PyNone
    /\ aggregated_usage \in
          {PyDict([daily |-> f, total |-> PyInt(0)]) :
              f \in DailyMaps({FmtDate(d) : d \in (clock - MaxDays)..clock})}

NextChart == PrintWeekly \/ Tick

SpecChart == InitChart /\ [][NextChart]_vars

\* ================================================================ claims
Count(seq, c) == Cardinality({i \in 1..Len(seq) : seq[i] = c})

\* the text of s before its first space, all of s when it has none
BeforeFirstSpace(s) ==
    LET n == CHOOSE n \in 0..Len(s) :
                 /\ \A j \in 1..n : s[j] # SP
                 /\ (n = Len(s) \/ s[n + 1] = SP)
    IN  SubSeq(s, 1, n)

RECURSIVE SumIdx(_, _)
SumIdx(S, t) ==
    IF S = {} THEN 0
    ELSE LET i == CHOOSE i \in S : TRUE IN t[i].v + SumIdx(S \ {i}, t)

HasArrays(doc) ==
    /\ doc.t = "dict"
    /\ "data" \in DOMAIN doc.v
    /\ doc.v.data.t = "dict"
    /\ {"x_time", "tokensUsage"} \subseteq DOMAIN doc.v.data.v
    /\ doc.v.data.v.x_time.t = "list"
    /\ doc.v.data.v.tokensUsage.t = "list"

Succeeds(doc) == doc.t = "dict" /\ Truthy(Get(doc, "success", PyNone))

\* a success-flagged document whose labels are strings, whose token values
\* are integers or null and whose total record, if any, is an object
IsSeries(doc) ==
    /\ Succeeds(doc)
    /\ HasArrays(doc)
    /\ \A i \in 1..Len(doc.v.data.v.x_time.v) : doc.v.data.v.x_time.v[i].t = "str"
    /\ \A i \in 1..Len(doc.v.data.v.tokensUsage.v) :
          doc.v.data.v.tokensUsage.v[i].t \in {"None", "int"}
    /\ Get(doc.v.data, "totalUsage", EmptyDict).t = "dict"

XTime(doc) == doc.v.data.v.x_time.v
TokensUsage(doc) == doc.v.data.v.tokensUsage.v
PresentIdx(doc) == {i \in 1..Len(TokensUsage(doc)) : TokensUsage(doc)[i].t # "None"}

\* C1: for a successful series document whose label and token arrays have
\* equal length, the aggregator returns a daily map whose keys are exactly
\* the date prefixes of the indices with a present token value, each key
\* holding the sum of the present values of its date; null values add
\* nothing and create no bucket, a 0 creates one, and an all-null series
\* gives an empty map, not an absent result.
C1_DailyTotals ==
    (/\ pc # "aggregate"
     /\ IsSeries(usage_data_response)
     /\ Len(XTime(usage_data_response)) = Len(TokensUsage(usage_data_response)))
    => /\ raised = ""
       /\ aggregated_usage.t = "dict"
       /\ LET doc == usage_data_response
              daily == aggregated_usage.v.daily
              DateOf(i) == BeforeFirstSpace(XTime(doc)[i].v)
          IN  /\ DOMAIN daily = {DateOf(i) : i \in PresentIdx(doc)}
              /\ \A k \in DOMAIN daily :
                    daily[k] = SumIdx({i \in PresentIdx(doc) : DateOf(i) = k},
                                      TokensUsage(doc))

\* C1 witness: a null sample skipped, a 0 that made a bucket, and a day
\* whose bucket is the sum of two samples
C1_Witness ==
    /\ pc = "summary"
    /\ IsSeries(usage_data_response)
    /\ Len(XTime(usage_data_response)) = MaxLen
    /\ Len(TokensUsage(usage_data_response)) = MaxLen
    /\ \E i \in 1..MaxLen : TokensUsage(usage_data_response)[i].t = "None"
    /\ aggregated_usage.t = "dict"
    /\ \E k \in DOMAIN aggregated_usage.v.daily : aggregated_usage.v.daily[k] = 0
    /\ \E k \in DOMAIN aggregated_usage.v.daily : aggregated_usage.v.daily[k] > 0

\* a document that is missing, reports failure, or has arrays of different
\* lengths
InvalidSeries(doc) ==
    \/ doc = PyNone
    \/ doc.t = "dict" /\ ~Succeeds(doc)
    \/ /\ HasArrays(doc)
       /\ Len(XTime(doc)) # Len(TokensUsage(doc))

\* C2: a document that is missing, reports failure or has label and token
\* arrays of different lengths makes the aggregator yield absent: it raises
\* no error and returns no daily map.
C2_InvalidYieldsAbsent ==
    (pc # "aggregate" /\ InvalidSeries(usage_data_response))
    => (raised = "" /\ aggregated_usage = PyNone)

\* the tier a colour code stands for
Tier(color) ==
    CASE color \in {"GREEN_BAR", "OKGREEN"} -> "ok"
      [] color \in {"YELLOW_BAR", "WARNING"} -> "warning"
      [] color \in {"RED_BAR", "FAIL"} -> "critical"

\* the percentage of the token-limit record of a quota document
PercentageOf(doc) == extract_token_data(doc).v.percentage.v

\* C6: the progress bar of width 30 has exactly floor(30 * p / 100) filled
\* cells and the remaining cells empty, and the bar colour and the label
\* colour are the same tier of p: ok below 50, warning from 50 and below 80,
\* critical from 80.
C6_BarAndTier ==
    (pc # "render_quota" /\ data \in BarDocs)
    => /\ token_block.kind = "token_usage"
       /\ LET p == PercentageOf(data)
              filled == (30 * p) \div 100
              tier == IF p < 50 THEN "ok" ELSE IF p < 80 THEN "warning"
                      ELSE "critical"
          IN  /\ Count(token_block.bar, "#") = filled
              /\ Count(token_block.bar, ".") = 30 - filled
              /\ Len(token_block.bar) = 30 + 3
              /\ Tier(token_block.bar[1]) = tier
              /\ Tier(token_block.percentage_color) = tier
              /\ token_block.percentage = p

\* C6 witness: 50 rendered as a warning bar of 15 filled cells
C6_Witness ==
    /\ pc = "window"
    /\ data \in BarDocs
    /\ PercentageOf(data) = 50
    /\ token_block.kind = "token_usage"
    /\ Count(token_block.bar, "#") = 15
    /\ token_block.percentage_color = "WARNING"

Daily(agg) == agg.v.daily

\* the largest of the values of a daily map and 1
ScaleOf(daily) ==
    CHOOSE m \in {daily[k] : k \in DOMAIN daily} \cup {1} :
        /\ m >= 1
        /\ \A k \in DOMAIN daily : daily[k] <= m

\* C9: in the chart of a non-empty daily map of non-negative integers the
\* filled width of every displayed date is floor(30 * v / m), v the date's
\* bucket (0 without one) and m the largest bucket of the whole daily map,
\* at least 1; every width is in 0..30 with 30 - width empty cells, and a
\* map of zeros gives widths of 0.
C9_ChartScaling ==
    (/\ pc \in {"footer", "done"}
     /\ exit_status # 1
     /\ args.show_weekly
     /\ aggregated_usage.t = "dict"
     /\ DOMAIN Daily(aggregated_usage) # {})
    => /\ chart_block.kind = "chart"
       /\ Len(chart_block.rows) = args.days
       /\ \A j \in 1..Len(chart_block.rows) :
            LET row == chart_block.rows[j]
                daily == Daily(aggregated_usage)
                v == IF row.date \in DOMAIN daily THEN daily[row.date] ELSE 0
                width == (30 * v) \div ScaleOf(daily)
            IN  /\ Count(row.bar, "#") = width
                /\ Count(row.bar, ".") = 30 - width
                /\ width \in 0..30
                /\ row.usage = v
                /\ (\A k \in DOMAIN daily : daily[k] = 0) => width = 0

\* C9 witness: a chart whose scale is a bucket of a date that is not
\* displayed, with a displayed bar that is neither empty nor full
C9_Witness ==
    /\ pc = "footer"
    /\ chart_block.kind = "chart"
    /\ \E k \in DOMAIN Daily(aggregated_usage) :
          /\ Daily(aggregated_usage)[k] = ScaleOf(Daily(aggregated_usage))
          /\ \A j \in 1..Len(chart_block.rows) : chart_block.rows[j].date # k
          /\ \A j \in 1..Len(chart_block.rows) :
                chart_block.rows[j].usage < Daily(aggregated_usage)[k]
    /\ \E j \in 1..Len(chart_block.rows) :
          Count(chart_block.rows[j].bar, "#") \in 1..29

QuotaIssued == Len(net_calls) >= 1
UsageIssued == Len(net_calls) >= 2
NoBlocks ==
    /\ token_block = NotPrinted
    /\ service_block = NotPrinted
    /\ summary_block = NotPrinted
    /\ chart_block = NotPrinted

\* the quota call failed: an exception, or a body that is no success-flagged
\* object
PrimaryFailed == QuotaIssued /\ (net_calls[1].result # "json" \/ ~Succeeds(data))
PrimarySucceeded == QuotaIssued /\ net_calls[1].result = "json" /\ Succeeds(data)

\* the usage call failed: an HTTP or connection error, a JSON parse error,
\* or a body whose success flag is missing or false
SecondaryFailed ==
    /\ UsageIssued
    /\ \/ net_calls[2].result \in CaughtErrors
       \/ /\ net_calls[2].result = "json"
          /\ usage_data_response.t = "dict"
          /\ ~Succeeds(usage_data_response)

\* the quota block of a run is what the two printers print for its document
QuotaBlockRendered ==
    /\ token_block = print_token_usage(extract_token_data(data)).val
    /\ service_block = print_service_usage(extract_usage_details(data)).val
    /\ token_block # NotPrinted
    /\ service_block # NotPrinted

C4_AbortBeforeUsage ==
    /\ ~env_token =>
          /\ net_calls = <<>>
          /\ NoBlocks
          /\ pc \in {"start", "done"}
          /\ pc = "done" => exit_status = 1
    /\ (PrimaryFailed /\ pc # "check_success") =>
          /\ pc = "done"
          /\ exit_status = 1
          /\ Len(net_calls) = 1
          /\ NoBlocks

\* C4 witness: a run ended by a failure-flagged quota document
C4_Witness ==
    /\ pc = "done"
    /\ QuotaIssued
    /\ net_calls[1].result = "json"
    /\ data.t = "dict"
    /\ ~Succeeds(data)
    /\ exit_status = 1

\* the date of a label
DateOfLabel(label) == BeforeFirstSpace(label)

\* C5: the window sent to the usage fetch starts at 00:00:00 of the date
\* N-1 days before today and ends at 23:59:59 of today, and the chart's day
\* sequence has N consecutive dates in descending order, index 0 today,
\* index 1 yesterday, every later index tagged with its weekday, the oldest
\* entry being the start label's date.
C5_WindowAndDays ==
    chart_block.kind = "chart"
    => \E today \in (clock - ticks)..clock :
        /\ net_calls[2].startTime = FmtDate(today - (args.days - 1)) \o StartOfDay
        /\ net_calls[2].endTime = FmtDate(today) \o EndOfDay
        /\ Len(chart_block.rows) = args.days
        /\ \A j \in 1..args.days :
              /\ chart_block.rows[j].date = FmtDate(today - (j - 1))
              /\ chart_block.rows[j].tag =
                    (IF j = 1 THEN "today" ELSE IF j = 2 THEN "yesterday"
                     ELSE Weekday(today - (j - 1)))
        /\ chart_block.rows[args.days].date = DateOfLabel(net_calls[2].startTime)

\* C7: a structural anomaly inside a success-flagged quota document never
\* fails the run: the quota block is rendered and the run goes on to the
\* usage fetch.
C7_AnomaliesNeverFail ==
    (PrimarySucceeded /\ pc \notin {"check_success", "render_quota"})
    => /\ token_block # NotPrinted
       /\ service_block # NotPrinted
       /\ pc = "done" => UsageIssued

\* C8: within one run the end date of the fetched window, the key of
\* today's bucket in the daily summary and the date of index 0 of the chart
\* are the same calendar date, whatever the clock does meanwhile.
C8_OneToday ==
    /\ summary_block.kind = "summary" =>
          summary_block.today = DateOfLabel(window.end_time_str)
    /\ chart_block.kind = "chart" =>
          chart_block.rows[1].date = DateOfLabel(window.end_time_str)

SummaryDone == pc \in {"weekly", "footer"} \/ (pc = "done" /\ UsageIssued)

\* C10: the daily summary is the no-data placeholder exactly when the
\* aggregation result is absent; when it is present, an empty daily map
\* included, the summary shows the bucket under today's date key, 0 without
\* one, never an error and never the placeholder.
C10_SummaryOrPlaceholder ==
    /\ (SummaryDone /\ summary_block # NotPrinted) =>
          (summary_block.kind = "no_data" <=> aggregated_usage = PyNone)
    /\ (SummaryDone /\ aggregated_usage # PyNone) =>
          /\ raised = ""
          /\ summary_block.kind = "summary"
          /\ summary_block.today \in {FmtDate(clock - k) : k \in 0..ticks}
          /\ LET daily == Daily(aggregated_usage)
             IN  summary_block.today_usage =
                    (IF summary_block.today \in DOMAIN daily
                     THEN daily[summary_block.today] ELSE 0)

\* C10 witness: a present result with an empty daily map, shown as 0
C10_Witness ==
    /\ pc = "weekly"
    /\ aggregated_usage.t = "dict"
    /\ DOMAIN Daily(aggregated_usage) = {}
    /\ summary_block.kind = "summary"
    /\ summary_block.today_usage = 0
====
